---- MODULE Spec2Model ----
(***************************************************************************)
(* Sliding-tile puzzle solver: board, solvability oracle, move generator,  *)
(* Manhattan heuristic and the six search strategies (BFS, DFS,            *)
(* IncrementalDFS, A*, IDA*, SMA* ), modelled operation by operation.      *)
(* Rust indices are 0-based; TLA+ sequences are 1-based, so cell i of the  *)
(* source is cells[i + 1] here.                                            *)
(***************************************************************************)
EXTENDS Integers, Sequences, FiniteSets, TLC

\* ---------------------------------------------------------------- bounds
\* largest number of cells (rows * columns) of a board
MaxCells == 6
\* largest distance (in single moves) of an initial board from the solved one
MaxScramble == 7
\* largest SMA* memory limit tried (besides "no limit")
MaxMemory == 3
\* largest number of calls a test makes on the board it exercises
MaxWalk == 2
\* largest number of rows, and of columns, of the solved boards whose
\* parity is computed
MaxSide == 5

\* Option<BoardMove> and the other name-valued options: the name or None
\* the element of a one-element set; {e : x \in {v}} names the value v as x
\* and computes it once
The(S) == CHOOSE x \in S : TRUE

None == "None"
\* Option<T> for numbers and records: <<>> is None, <<x>> is Some(x)
Nothing == <<>>
Some(x) == <<x>>

\* ----------------------------------------------------------------- board
Up == "Up"
Down == "Down"
Left == "Left"
Right == "Right"

BoardMove == {Up, Down, Left, Right}

opposite(m) ==
    CASE m = Up -> Down
      [] m = Down -> Up
      [] m = Left -> Right
      [] m = Right -> Left

flatten_index(b, row, column) == row * b.columns + column

at(b, row, column) == b.cells[flatten_index(b, row, column) + 1]

empty_cell_pos(b) ==
    LET empty_cell_index == (CHOOSE i \in 1..Len(b.cells) : b.cells[i] = 0) - 1
    IN  <<empty_cell_index \div b.columns, empty_cell_index % b.columns>>

\* a solved check that looks at the blank only
is_solved_blank_last(b) == b.cells[Len(b.cells)] = 0

is_solved(b) ==
    /\ b.cells[Len(b.cells)] = 0
    /\ \A i \in 1..(Len(b.cells) - 1) : b.cells[i] = i

\* bounds compared with the dimensions instead of the last index
can_move_within_dimensions(b, m) ==
    CASE m = Up -> empty_cell_pos(b)[1] >= 0
      [] m = Down -> empty_cell_pos(b)[1] < b.rows
      [] m = Left -> empty_cell_pos(b)[2] >= 0
      [] m = Right -> empty_cell_pos(b)[2] < b.columns

can_move(b, m) ==
    CASE m = Up -> empty_cell_pos(b)[1] > 0
      [] m = Down -> empty_cell_pos(b)[1] < b.rows - 1
      [] m = Left -> empty_cell_pos(b)[2] > 0
      [] m = Right -> empty_cell_pos(b)[2] < b.columns - 1

\* a move that leaves the board as it is
exec_move_without_effect(b, m) == b

\* a move that copies the tile into the blank's cell and leaves the tile
\* where it was
exec_move_copying_tile(b, m) ==
    LET zero == empty_cell_pos(b)
        target == CASE m = Up -> <<zero[1] - 1, zero[2]>>
                    [] m = Down -> <<zero[1] + 1, zero[2]>>
                    [] m = Left -> <<zero[1], zero[2] - 1>>
                    [] m = Right -> <<zero[1], zero[2] + 1>>
    IN  [b EXCEPT !.cells[flatten_index(b, zero[1], zero[2]) + 1] =
                      b.cells[flatten_index(b, target[1], target[2]) + 1]]

\* exec_move asserts can_move; callers test CanApply first and report a
\* panic instead of calling it when the assertion would fail.
exec_move(b, m) ==
    The({LET zero == empty_cell_pos(board)
             target == CASE m = Up -> <<zero[1] - 1, zero[2]>>
                         [] m = Down -> <<zero[1] + 1, zero[2]>>
                         [] m = Left -> <<zero[1], zero[2] - 1>>
                         [] m = Right -> <<zero[1], zero[2] + 1>>
             zero_index == flatten_index(board, zero[1], zero[2]) + 1
             target_index == flatten_index(board, target[1], target[2]) + 1
             target_value == board.cells[target_index]
         IN  [board EXCEPT !.cells = [[@ EXCEPT ![target_index] = 0]
                                         EXCEPT ![zero_index] = target_value]]
         : board \in {b}})

\* ---------------------------------------------------------------- parity
Even == "Even"
Odd == "Odd"

ParityOpposite(p) == IF p = Even THEN Odd ELSE Even

ParityFrom(value) == IF value % 2 = 0 THEN Even ELSE Odd

\* an addition that saturates at Odd
ParityAdd_saturating(a, b) == IF a = Odd \/ b = Odd THEN Odd ELSE Even

ParityAdd(a, b) == IF a = b THEN Even ELSE Odd

\* the inner while loop: follow the cycle from element until a visited one
RECURSIVE VisitCycle(_, _, _, _)
VisitCycle(permutation, visited, element, cycle_length) ==
    IF element \in visited
    THEN [visited |-> visited, cycle_length |-> cycle_length]
    ELSE VisitCycle(permutation, visited \cup {element},
                    permutation[element + 1], cycle_length + 1)

\* the outer for loop: the lengths of the cycles longer than 1, in order
RECURSIVE CycleLengths(_, _, _)
CycleLengths(permutation, i, visited) ==
    IF i > Len(permutation) THEN <<>>
    ELSE LET walk == VisitCycle(permutation, visited, permutation[i], 0)
         IN  (IF walk.cycle_length > 1 THEN <<walk.cycle_length>> ELSE <<>>)
               \o CycleLengths(permutation, i + 1, walk.visited)

\* the count taken over the cycles of odd length
calculate_parity_of_odd_lengths(permutation) ==
    LET cycle_lengths == CycleLengths(permutation, 1, {})
        odd_cycle_count ==
            Cardinality({k \in 1..Len(cycle_lengths) : cycle_lengths[k] % 2 = 1})
    IN  IF odd_cycle_count % 2 = 0 THEN Even ELSE Odd

calculate_parity(permutation) ==
    LET cycle_lengths == CycleLengths(permutation, 1, {})
        odd_cycle_count ==
            Cardinality({k \in 1..Len(cycle_lengths) : cycle_lengths[k] % 2 = 0})
    IN  IF odd_cycle_count % 2 = 0 THEN Even ELSE Odd

\* solving/parity.rs: the same walk over the cycles, then the parities of
\* the cycles (each the opposite of the parity of its length) folded with add
permutation_parity(permutation) ==
    LET cycle_lengths == CycleLengths(permutation, 1, {})
        RECURSIVE fold(_, _)
        fold(acc, k) ==
            IF k > Len(cycle_lengths) THEN acc
            ELSE fold(ParityAdd(acc, ParityOpposite(ParityFrom(cycle_lengths[k]))), k + 1)
    IN  fold(Even, 1)

\* the parity of the rows between the blank and the last row only
required_moves_parity_of_rows(b) == ParityFrom(b.rows - 1 - empty_cell_pos(b)[1])

required_moves_parity(b) ==
    LET current_empty_pos == empty_cell_pos(b)
    IN  ParityFrom((b.rows - 1 - current_empty_pos[1])
                     + (b.columns - 1 - current_empty_pos[2]))

solved_board_parity(b) == ParityOpposite(ParityFrom(b.rows * b.columns))

is_solvable(b) ==
    LET board_parity == calculate_parity(b.cells)
        current_empty_pos == empty_cell_pos(b)
        zero_manhattan_distance ==
            (b.rows - 1 - current_empty_pos[1]) + (b.columns - 1 - current_empty_pos[2])
    IN  ParityAdd(board_parity, solved_board_parity(b)) = ParityFrom(zero_manhattan_distance)

\* ------------------------------------------------------- move generator
\* the default search order of MoveGenerator::default
search_order == <<Up, Down, Left, Right>>

position_after_move(initial_position, m) ==
    CASE m = Up -> <<initial_position[1] - 1, initial_position[2]>>
      [] m = Down -> <<initial_position[1] + 1, initial_position[2]>>
      [] m = Left -> <<initial_position[1], initial_position[2] - 1>>
      [] m = Right -> <<initial_position[1], initial_position[2] + 1>>

\* a check of the row only
is_inside_board_by_row(position, b) == position[1] >= 0 /\ position[1] < b.rows

\* a bounds check that takes the first row for the edge
is_inside_board_past_first_row(position, b) ==
    /\ position[1] > 0
    /\ position[2] >= 0
    /\ position[1] < b.rows
    /\ position[2] < b.columns

is_inside_board(position, b) ==
    /\ position[1] >= 0
    /\ position[2] >= 0
    /\ position[1] < b.rows
    /\ position[2] < b.columns

\* the inner loop over second moves, from index j of the search order
RECURSIVE SecondMoves(_, _, _, _)
SecondMoves(b, first_move, first_position, j) ==
    IF j > Len(search_order) THEN <<>>
    ELSE LET second_move == search_order[j]
         IN  The({IF /\ is_inside_board(second_position, b)
                     /\ second_move # opposite(first_move)
                  THEN <<<<first_move, second_move>>>>
                  ELSE <<>>
                  : second_position \in {position_after_move(first_position, second_move)}})
               \o SecondMoves(b, first_move, first_position, j + 1)

\* pruning every first move that turns away from the previous one
turns_from_previous(first_move, previous_move) ==
    previous_move # None /\ first_move # previous_move

\* pruning no first move at all
keeps_every_first_move(first_move, previous_move) == FALSE

\* "if let Some(previous_move) ... first_move == previous_move.opposite()"
undoes_previous(first_move, previous_move) ==
    previous_move # None /\ first_move = opposite(previous_move)

\* the outer loop over first moves, from index i of the search order
RECURSIVE FirstMoves(_, _, _, _)
FirstMoves(b, previous_move, generate_single_move, i) ==
    IF i > Len(search_order) THEN <<>>
    ELSE LET first_move == search_order[i]
         IN  The({IF ~is_inside_board(first_position, b) THEN <<>>
                  ELSE IF undoes_previous(first_move, previous_move) THEN <<>>
                  ELSE IF generate_single_move THEN <<<<first_move>>>>
                  ELSE SecondMoves(b, first_move, first_position, 1)
                  : first_position \in {position_after_move(empty_cell_pos(b), first_move)}})
               \o FirstMoves(b, previous_move, generate_single_move, i + 1)

\* a MoveSequence is <<m>> (Single) or <<first, second>> (Double)
generate_moves(b, previous_move) ==
    The({FirstMoves(board, previous, single, 1)
         : board \in {b}, previous \in {previous_move},
           single \in {required_moves_parity(b) = Odd}})

\* ------------------------------------------------------------ util
Last(path) == IF path = <<>> THEN None ELSE path[Len(path)]

\* would every exec_move of the sequence pass its can_move assertion
CanApply(b, move_sequence) ==
    /\ can_move(b, move_sequence[1])
    /\ Len(move_sequence) = 2 =>
          can_move(exec_move(b, move_sequence[1]), move_sequence[2])

board_after(b, move_sequence) ==
    IF Len(move_sequence) = 1
    THEN exec_move(b, move_sequence[1])
    ELSE exec_move(exec_move(b, move_sequence[1]), move_sequence[2])

\* a Double of which only the first move reaches the board
apply_move_sequence_first_only(node, move_sequence) ==
    [board |-> exec_move(node.board, move_sequence[1]),
     path |-> node.path \o move_sequence]

\* a node is a board with the path that produced it
apply_move_sequence(node, move_sequence) ==
    [board |-> board_after(node.board, move_sequence),
     path |-> node.path \o move_sequence]

\* undo that takes the moves back on the board and leaves them on the path
undo_move_sequence_keeps_path(node, move_sequence) ==
    [board |-> IF Len(move_sequence) = 1
               THEN exec_move(node.board, opposite(move_sequence[1]))
               ELSE exec_move(exec_move(node.board, opposite(move_sequence[2])),
                              opposite(move_sequence[1])),
     path |-> node.path]

undo_move_sequence(node, move_sequence) ==
    [board |-> IF Len(move_sequence) = 1
               THEN exec_move(node.board, opposite(move_sequence[1]))
               ELSE exec_move(exec_move(node.board, opposite(move_sequence[2])),
                              opposite(move_sequence[1])),
     path |-> SubSeq(node.path, 1, Len(node.path) - Len(move_sequence))]

\* ------------------------------------------------------------ heuristics
MD == "MD"
LC == "LC"
ID == "ID"
Heuristics == {MD, LC, ID}

\* value standing for a panic inside Heuristic::evaluate
HPanic == -1

AbsDiff(x, y) == IF x > y THEN x - y ELSE y - x

manhattan_distance(p1, p2) == AbsDiff(p1[1], p2[1]) + AbsDiff(p1[2], p2[2])

nonzero_cell_expected_pos(cell, rows, columns) ==
    <<(cell - 1) \div rows, (cell - 1) % columns>>

\* the double loop of ManhattanDistance::evaluate, cell index i in row-major order
RECURSIVE ManhattanFrom(_, _)
ManhattanFrom(b, i) ==
    IF i >= Len(b.cells) THEN 0
    ELSE LET value == b.cells[i + 1]
             here == <<i \div b.columns, i % b.columns>>
         IN  (IF value = 0 THEN 0
              ELSE manhattan_distance(here,
                       nonzero_cell_expected_pos(value, b.rows, b.columns)))
               + ManhattanFrom(b, i + 1)

ManhattanDistance_evaluate(b) == ManhattanFrom(b, 0)

LinearConflict_evaluate(b) ==
    LET expected_pos(cell) == nonzero_cell_expected_pos(cell, b.rows, b.columns)
        row_conflicts ==
            {t \in (0..(b.rows - 1)) \X (0..(b.columns - 2)) \X (1..(b.columns - 1)) :
                /\ t[3] > t[2]
                /\ at(b, t[1], t[2]) # 0
                /\ at(b, t[1], t[3]) # 0
                /\ expected_pos(at(b, t[1], t[2]))[1] = t[1]
                /\ expected_pos(at(b, t[1], t[3]))[1] = t[1]
                /\ at(b, t[1], t[2]) > at(b, t[1], t[3])}
        column_conflicts ==
            {t \in (0..(b.columns - 1)) \X (0..(b.rows - 2)) \X (1..(b.rows - 1)) :
                /\ t[3] > t[2]
                /\ at(b, t[2], t[1]) # 0
                /\ at(b, t[3], t[1]) # 0
                /\ expected_pos(at(b, t[2], t[1]))[2] = t[1]
                /\ expected_pos(at(b, t[3], t[1]))[2] = t[1]
                /\ at(b, t[2], t[1]) > at(b, t[3], t[1])}
    IN  ManhattanDistance_evaluate(b)
          + (Cardinality(row_conflicts) + Cardinality(column_conflicts)) * 2

\* the goal linearizations for the dimensions of b; index k = c * rows + r
InversionDistanceCache_new(b) ==
    LET n == b.rows * b.columns
    IN  [rows |-> b.rows,
         columns |-> b.columns,
         row_first_order |-> [k \in 1..n |-> IF k = n THEN 0 ELSE k],
         column_first_order |->
             [k \in 1..n |-> IF k = n THEN 0
                             ELSE ((k - 1) % b.rows) * b.rows + ((k - 1) \div b.rows) + 1]]

\* iter().position(..): 1-based index of the first occurrence, 0 for None
Position(order, x) ==
    IF \E k \in 1..Len(order) : order[k] = x
    THEN CHOOSE k \in 1..Len(order) :
            order[k] = x /\ \A l \in 1..(k - 1) : order[l] # x
    ELSE 0

number_of_inversions(order, expected_order) ==
    LET pairs == {p \in (1..(Len(order) - 1)) \X (1..Len(order)) :
                     p[2] >= p[1] /\ order[p[1]] # 0 /\ order[p[2]] # 0}
    IN  IF \E p \in pairs : \/ Position(expected_order, order[p[1]]) = 0
                            \/ Position(expected_order, order[p[2]]) = 0
        THEN HPanic
        ELSE Cardinality({p \in pairs :
                 Position(expected_order, order[p[1]])
                    > Position(expected_order, order[p[2]])})

\* the while loop turning an inversion count into a shift count
RECURSIVE ShiftCount(_, _)
ShiftCount(inversions, divisor) ==
    IF divisor <= 0 THEN 0
    ELSE (inversions \div divisor)
           + ShiftCount(inversions % divisor, IF divisor >= 2 THEN divisor - 2 ELSE 0)

\* a cache that is filled once and kept whatever the dimensions
InversionDistance_cache_kept(c, b) ==
    IF c # Nothing THEN c ELSE Some(InversionDistanceCache_new(b))

\* the cache the call leaves behind
InversionDistance_cache_after(c, b) ==
    IF c # Nothing /\ c[1].rows = b.rows /\ c[1].columns = b.columns
    THEN c
    ELSE Some(InversionDistanceCache_new(b))

InversionDistance_evaluate(c, b) ==
    The({The({IF row_inversions = HPanic \/ column_inversions = HPanic
              THEN HPanic
              ELSE ShiftCount(row_inversions, b.columns - 1)
                     + ShiftCount(column_inversions, b.rows - 1)
              : row_inversions \in
                    {number_of_inversions(row_first_order, cache_now.row_first_order)},
                column_inversions \in
                    {number_of_inversions(column_first_order,
                                          cache_now.column_first_order)}})
         : cache_now \in {InversionDistance_cache_after(c, b)[1]},
           row_first_order \in {b.cells},
           column_first_order \in
               {[k \in 1..(b.rows * b.columns) |->
                    at(b, (k - 1) % b.rows, (k - 1) \div b.rows)]}})

\* Heuristic::evaluate, dispatched on the heuristic h; c is the cache of
\* the InversionDistance instance
evaluate(h, c, b) ==
    The({CASE h = MD -> ManhattanDistance_evaluate(board)
           [] h = LC -> LinearConflict_evaluate(board)
           [] h = ID -> InversionDistance_evaluate(instance, board)
         : board \in {b}, instance \in {c}})

\* ------------------------------------------------------- initial boards
Dims == {d \in (1..MaxCells) \X (1..MaxCells) : d[1] * d[2] >= 2 /\ d[1] * d[2] <= MaxCells}

SolvedBoard(d) ==
    [rows |-> d[1], columns |-> d[2],
     cells |-> [i \in 1..(d[1] * d[2]) |-> IF i = d[1] * d[2] THEN 0 ELSE i]]

Neighbours(b) == {exec_move(b, m) : m \in {x \in BoardMove : can_move(b, x)}}

\* layers[j + 1] = boards exactly j single moves away from the solved board
RECURSIVE ScrambleLayers(_, _, _)
ScrambleLayers(layers, seen, k) ==
    IF k = 0 THEN layers
    ELSE LET next == (UNION {Neighbours(b) : b \in layers[Len(layers)]}) \ seen
         IN  ScrambleLayers(Append(layers, next), seen \cup next, k - 1)

LayersOf ==
    [d \in Dims |-> ScrambleLayers(<<{SolvedBoard(d)}>>, {SolvedBoard(d)}, MaxScramble)]

\* boards that can be solved, at most MaxScramble moves from solved
SolvableBoards ==
    UNION {UNION {LayersOf[d][j] : j \in 1..(MaxScramble + 1)} : d \in Dims}

\* the least number of single moves that solves b
MinMoves(b) ==
    CHOOSE j \in 0..MaxScramble : b \in LayersOf[<<b.rows, b.columns>>][j + 1]

\* b with tiles 1 and 2 exchanged: never solvable when b is
SwapTiles(b) ==
    [b EXCEPT !.cells = [i \in 1..Len(b.cells) |->
                            IF b.cells[i] = 1 THEN 2
                            ELSE IF b.cells[i] = 2 THEN 1 ELSE b.cells[i]]]

UnsolvableBoards == {SwapTiles(b) : b \in {x \in SolvableBoards : Len(x.cells) >= 3}}

InitialBoards == SolvableBoards \cup UnsolvableBoards

\* ---------------------------------------------------------------- state
VARIABLES
    alg,            \* the strategy constructed
    heuristic,      \* the heuristic handed to an informed strategy, else None
    memory_limit,   \* MemoryBoundedAStarSolver.memory_limit (None = no limit)
    initial,        \* the board the solver was constructed with
    board,          \* DFSSolver.board / IterativeAStarSolver.board
    path,           \* DFSSolver.current_path / IterativeAStarSolver.path
    visited,        \* BFSSolver.visited_positions / DFSSolver.visited
    queue,          \* BFSSolver.queue / MemoryBoundedAStarSolver.queue
    heap,           \* AStarSolver.queue (a BinaryHeap: its nodes)
    stack,          \* the live calls of perform_iteration / search
    pc,             \* where solve() stands: "start", "call", "return", "loop"
    current_depth,  \* argument of the perform_iteration call being entered
    ret,            \* value returned by the call that just finished
    max_depth,      \* IncrementalDFSSolver::solve local
    bound,          \* IterativeAStarSolver::solve local
    cache,          \* InversionDistance.cache
    result,         \* what solve() returned, "none" while it runs
    solution,       \* the path inside Ok
    evicted,        \* history: has reduce_memory removed a node
    astar_len,      \* history: length A* returned on this board, for comparison
    call            \* the call a test made last on the unit it exercises, with its
                    \* argument and what it was made on; None for a solver

vars == <<alg, heuristic, memory_limit, initial, board, path, visited, queue, heap,
          stack, pc, current_depth, ret, max_depth, bound, cache, result, solution,
          evicted, astar_len, call>>

config == <<alg, heuristic, memory_limit, initial>>
inplace == <<board, path, stack, current_depth, ret>>

BFS == "BFS"
DFS == "DFS"
IDFS == "IncrementalDFS"
AStar == "AStar"
IDAStar == "IDAStar"
SMAStar == "SMAStar"
Strategies == {BFS, DFS, IDFS, AStar, IDAStar, SMAStar}
Informed == {AStar, IDAStar, SMAStar}

MemoryLimits == {Nothing} \cup {Some(l) : l \in 0..MaxMemory}

RootNode(b) == [board |-> b, path |-> <<>>]

\* a node whose f-cost forgets the length of its path
SMAStarNode_without_path(b, p, h, c) ==
    [board |-> b, path |-> p, f_cost |-> evaluate(h, c, b),
     best_forgotten_child |-> Nothing]

\* SMAStarNode::new; f_cost is HPanic when the heuristic panics
SMAStarNode_new(b, p, h, c) ==
    The({[board |-> b_, path |-> p_,
          f_cost |-> IF hv = HPanic THEN HPanic ELSE hv + Len(p_),
          best_forgotten_child |-> Nothing]
         : b_ \in {b}, p_ \in {p}, hv \in {evaluate(h, c, b)}})

\* the state right after the constructor of strategy a returned
Constructed(a, boards) ==
    /\ alg = a
    /\ initial \in boards
    /\ heuristic \in (IF a \in Informed THEN Heuristics ELSE {None})
    /\ memory_limit \in (IF a = SMAStar THEN MemoryLimits ELSE {Nothing})
    /\ board = initial
    /\ path = <<>>
    /\ visited = {}
    /\ stack = <<>>
    /\ current_depth = 0
    /\ ret = Nothing
    /\ max_depth = Nothing
    /\ bound = 0
    /\ solution = <<>>
    /\ evicted = FALSE
    /\ astar_len = Nothing
    /\ call = Nothing
    /\ pc = IF a \in {BFS, AStar, SMAStar} THEN "loop" ELSE "start"
    /\ heap = IF a = AStar /\ is_solvable(initial) THEN {RootNode(initial)} ELSE {}
    /\ LET root == SMAStarNode_new(initial, <<>>, heuristic, Nothing)
       IN  IF a = SMAStar /\ is_solvable(initial)
           THEN /\ queue = IF root.f_cost = HPanic THEN <<>> ELSE <<root>>
                /\ result = IF root.f_cost = HPanic THEN "Panic" ELSE "none"
                /\ cache = IF heuristic = ID
                           THEN InversionDistance_cache_after(Nothing, initial)
                           ELSE Nothing
           ELSE /\ queue = IF a = BFS /\ is_solvable(initial)
                           THEN <<RootNode(initial)>> ELSE <<>>
                /\ result = "none"
                /\ cache = Nothing

\* ------------------------------------------------------------------ BFS
\* every generated sequence passes the assertions of exec_move
AllApply(b, moves) == \A k \in 1..Len(moves) : CanApply(b, moves[k])

\* a set of visited states that never takes a board in
mark_visited_nowhere(visited_states, b) == visited_states

\* VisitedPositions::mark_visited, and the HashSet::insert of DFSSolver
mark_visited(visited_states, b) == visited_states \cup {b}

\* the new elements pushed in front of the queue instead
extend_front(q, new_elements) == new_elements \o q

\* VecDeque::extend: the new elements go to the back, in order
extend(q, new_elements) == q \o new_elements

\* one turn of the while loop of BFSSolver::solve: pop_front, bfs_iteration
BFSIteration ==
    /\ alg = BFS
    /\ result = "none"
    /\ UNCHANGED <<config, call, inplace, pc, heap, max_depth, bound, cache, evicted, astar_len>>
    /\ IF queue = <<>>
       THEN /\ result' = "UnsolvableBoard"
            /\ UNCHANGED <<queue, visited, solution>>
       ELSE LET current == Head(queue)
                moves == generate_moves(current.board, None)
            IN  IF is_solved(current.board)
                THEN /\ result' = "Ok"
                     /\ solution' = current.path
                     /\ queue' = Tail(queue)
                     /\ UNCHANGED visited
                ELSE IF current.board \in visited
                THEN /\ queue' = Tail(queue)
                     /\ UNCHANGED <<visited, result, solution>>
                ELSE IF ~AllApply(current.board, moves)
                THEN /\ result' = "Panic"
                     /\ visited' = mark_visited(visited, current.board)
                     /\ queue' = Tail(queue)
                     /\ UNCHANGED solution
                ELSE /\ visited' = mark_visited(visited, current.board)
                     /\ queue' = extend(Tail(queue),
                                       [k \in 1..Len(moves) |->
                                           apply_move_sequence(current, moves[k])])
                     /\ UNCHANGED <<result, solution>>

InitBFS == Constructed(BFS, InitialBoards)
NextBFS == BFSIteration
SpecBFS == InitBFS /\ [][NextBFS]_vars

\* ------------------------------------------------- DFS, IncrementalDFS
\* A frame of stack is a call of perform_iteration (or search) suspended in
\* its for loop: the generated moves, the index of the one applied, the
\* depth argument of the call and (IDA* only) the running minimum.
Frame(moves, depth) == [moves |-> moves, index |-> 1, depth |-> depth, minimum |-> Nothing]

Top == stack[Len(stack)]
Pop == SubSeq(stack, 1, Len(stack) - 1)

Here == [board |-> board, path |-> path]

\* solve without the guard
solve_never_rejects(b) == FALSE

\* the guard "if !is_solvable(&self.board)" that opens both solve functions
solve_rejects(b) == ~is_solvable(b)

\* DFSSolver::solve and IncrementalDFSSolver::solve up to the first call
DFSSolve ==
    /\ alg \in {DFS, IDFS}
    /\ result = "none"
    /\ pc = "start"
    /\ UNCHANGED <<config, call, board, path, stack, ret, visited, queue, heap, bound, cache,
                   solution, evicted, astar_len>>
    /\ IF solve_rejects(board)
       THEN /\ result' = "UnsolvableBoard"
            /\ UNCHANGED <<pc, current_depth, max_depth>>
       ELSE /\ pc' = "call"
            /\ current_depth' = 0
            /\ max_depth' = IF alg = IDFS THEN Some(1) ELSE Nothing
            /\ UNCHANGED result

\* perform_iteration from its entry to its first recursive call or return
PerformIteration ==
    /\ alg \in {DFS, IDFS}
    /\ result = "none"
    /\ pc = "call"
    /\ UNCHANGED <<config, call, queue, heap, max_depth, bound, cache, solution, evicted,
                   astar_len>>
    /\ IF is_solved(board)
       THEN /\ ret' = <<"Ok">>
            /\ pc' = "return"
            /\ UNCHANGED <<board, path, stack, current_depth, visited, result>>
       ELSE IF board \in visited
       THEN /\ ret' = <<"StateAlreadyVisited">>
            /\ pc' = "return"
            /\ UNCHANGED <<board, path, stack, current_depth, visited, result>>
       ELSE /\ visited' = mark_visited(visited, board)
            /\ IF max_depth # Nothing /\ current_depth >= max_depth[1]
               THEN /\ ret' = <<"MaxDepthReached">>
                    /\ pc' = "return"
                    /\ UNCHANGED <<board, path, stack, current_depth, result>>
               ELSE \E moves \in {generate_moves(board, Last(path))} :
                        IF moves = <<>>
                        THEN /\ ret' = <<"StateExhausted">>
                             /\ pc' = "return"
                             /\ UNCHANGED <<board, path, stack, current_depth, result>>
                        ELSE IF ~CanApply(board, moves[1])
                        THEN /\ result' = "Panic"
                             /\ UNCHANGED <<board, path, stack, current_depth, ret, pc>>
                        ELSE \* exec_move_sequence, then _call_recursive(current_depth + 1),
                             \* which calls perform_iteration(current_depth + 1 + 1)
                             /\ board' = apply_move_sequence(Here, moves[1]).board
                             /\ path' = apply_move_sequence(Here, moves[1]).path
                             /\ stack' = Append(stack, Frame(moves, current_depth))
                             /\ current_depth' = current_depth + 1 + 1
                             /\ UNCHANGED <<ret, pc, result>>

\* the value of a recursive call comes back: the rest of the for loop of
\* perform_iteration, or of solve() when the outermost call returned
DFSReturn ==
    /\ alg \in {DFS, IDFS}
    /\ result = "none"
    /\ pc = "return"
    /\ UNCHANGED <<config, call, queue, heap, bound, cache, evicted, astar_len>>
    /\ IF stack = <<>>
       THEN IF ret = <<"Ok">>
            THEN /\ result' = "Ok"
                 /\ solution' = path
                 /\ UNCHANGED <<inplace, pc, visited, max_depth>>
            ELSE IF alg = DFS
            THEN /\ result' = ret[1]
                 /\ UNCHANGED <<inplace, pc, visited, max_depth, solution>>
            ELSE /\ max_depth' = Some(max_depth[1] + 1)
                 /\ visited' = {}
                 /\ pc' = "call"
                 /\ current_depth' = 0
                 /\ UNCHANGED <<board, path, stack, ret, result, solution>>
       ELSE IF ret = <<"Ok">>
       THEN /\ stack' = Pop
            /\ UNCHANGED <<board, path, current_depth, ret, pc, visited, max_depth,
                           result, solution>>
       ELSE \E undone \in {undo_move_sequence(Here, Top.moves[Top.index])} :
                IF Top.index < Len(Top.moves)
                THEN IF ~CanApply(undone.board, Top.moves[Top.index + 1])
                     THEN /\ result' = "Panic"
                          /\ UNCHANGED <<inplace, pc, visited, max_depth, solution>>
                     ELSE /\ board' = apply_move_sequence(undone, Top.moves[Top.index + 1]).board
                          /\ path' = apply_move_sequence(undone, Top.moves[Top.index + 1]).path
                          /\ stack' = [stack EXCEPT ![Len(stack)].index = @ + 1]
                          /\ current_depth' = Top.depth + 1 + 1
                          /\ pc' = "call"
                          /\ UNCHANGED <<ret, visited, max_depth, result, solution>>
                ELSE /\ board' = undone.board
                     /\ path' = undone.path
                     /\ stack' = Pop
                     /\ ret' = <<"StateExhausted">>
                     /\ UNCHANGED <<current_depth, pc, visited, max_depth, result, solution>>

InitDFS == Constructed(DFS, InitialBoards)
NextDFS == DFSSolve \/ PerformIteration \/ DFSReturn
SpecDFS == InitDFS /\ [][NextDFS]_vars

InitIDFS == Constructed(IDFS, InitialBoards)
NextIDFS == DFSSolve \/ PerformIteration \/ DFSReturn
SpecIDFS == InitIDFS /\ [][NextIDFS]_vars

\* a cost that forgets the length of the path (greedy best-first)
f_cost_without_path(node) == evaluate(heuristic, cache, node.board)

\* ------------------------------------------------------------------- A*
\* SearchNode::f_cost; HPanic when the heuristic panics
f_cost(node) ==
    LET hv == evaluate(heuristic, cache, node.board)
    IN  IF hv = HPanic THEN HPanic ELSE hv + Len(node.path)

\* the cache after the heuristic was evaluated on a board of b's dimensions
CacheAfterEvaluate(b) ==
    IF heuristic = ID THEN InversionDistance_cache_after(cache, b) ELSE cache

\* the nodes BinaryHeap::pop may return: any node of least f-cost (the
\* order among equal keys is not specified by the heap)
HeapMinimum == {n \in heap : \A m \in heap : f_cost(n) <= f_cost(m)}

\* one turn of the while loop of AStarSolver::solve: pop, visit_node
AStarVisitNode ==
    /\ alg = AStar
    /\ result = "none"
    /\ UNCHANGED <<config, call, inplace, pc, visited, queue, max_depth, bound, evicted, astar_len>>
    /\ IF heap = {}
       THEN /\ result' = "UnsolvableBoard"
            /\ UNCHANGED <<heap, cache, solution>>
       ELSE \E node \in HeapMinimum :
              LET moves == generate_moves(node.board, Last(node.path))
              IN  IF f_cost(node) = HPanic
                  THEN /\ result' = "Panic"
                       /\ cache' = CacheAfterEvaluate(node.board)
                       /\ UNCHANGED <<heap, solution>>
                  ELSE IF is_solved(node.board)
                  THEN /\ result' = "Ok"
                       /\ solution' = node.path
                       /\ heap' = heap \ {node}
                       /\ cache' = CacheAfterEvaluate(node.board)
                  ELSE IF ~AllApply(node.board, moves)
                  THEN /\ result' = "Panic"
                       /\ cache' = CacheAfterEvaluate(node.board)
                       /\ UNCHANGED <<heap, solution>>
                  ELSE /\ heap' = (heap \ {node})
                            \cup {apply_move_sequence(node, moves[k]) : k \in 1..Len(moves)}
                       /\ cache' = CacheAfterEvaluate(node.board)
                       /\ UNCHANGED <<result, solution>>

InitAStar == Constructed(AStar, InitialBoards)
NextAStar == AStarVisitNode
SpecAStar == InitAStar /\ [][NextAStar]_vars

\* ----------------------------------------------------------------- IDA*
\* IterativeAStarSolver::solve up to the first call of search
IDAStarSolve ==
    /\ alg = IDAStar
    /\ result = "none"
    /\ pc = "start"
    /\ UNCHANGED <<config, call, inplace, visited, queue, heap, max_depth, solution, evicted,
                   astar_len>>
    /\ IF ~is_solvable(board)
       THEN /\ result' = "UnsolvableBoard"
            /\ UNCHANGED <<pc, bound, cache>>
       ELSE /\ cache' = CacheAfterEvaluate(board)
            /\ IF evaluate(heuristic, cache, board) = HPanic
               THEN /\ result' = "Panic"
                    /\ UNCHANGED <<pc, bound>>
               ELSE /\ bound' = evaluate(heuristic, cache, board)
                    /\ pc' = "call"
                    /\ UNCHANGED result

\* search(max_f_cost) from its entry to its first recursive call or return
IDAStarSearch ==
    /\ alg = IDAStar
    /\ result = "none"
    /\ pc = "call"
    /\ UNCHANGED <<config, call, current_depth, visited, queue, heap, max_depth, bound, solution,
                   evicted, astar_len, call>>
    /\ cache' = CacheAfterEvaluate(board)
    /\ IF f_cost(Here) = HPanic
       THEN /\ result' = "Panic"
            /\ UNCHANGED <<board, path, stack, ret, pc>>
       ELSE IF f_cost(Here) > bound
       THEN /\ ret' = <<"Exceeded", f_cost(Here)>>
            /\ pc' = "return"
            /\ UNCHANGED <<board, path, stack, result>>
       ELSE IF is_solved(board)
       THEN /\ ret' = <<"Ok">>
            /\ pc' = "return"
            /\ UNCHANGED <<board, path, stack, result>>
       ELSE LET moves == generate_moves(board, Last(path))
            IN  IF moves = <<>>
                THEN /\ ret' = <<"NotFound">>
                     /\ pc' = "return"
                     /\ UNCHANGED <<board, path, stack, result>>
                ELSE IF ~CanApply(board, moves[1])
                THEN /\ result' = "Panic"
                     /\ UNCHANGED <<board, path, stack, ret, pc>>
                ELSE /\ board' = apply_move_sequence(Here, moves[1]).board
                     /\ path' = apply_move_sequence(Here, moves[1]).path
                     /\ stack' = Append(stack, Frame(moves, 0))
                     /\ UNCHANGED <<ret, pc, result>>

\* keeping the largest exceeding cost instead of the least
MaximumAfter(minimum, r) ==
    IF r[1] = "Exceeded" /\ (minimum = Nothing \/ r[2] > minimum[1])
    THEN Some(r[2])
    ELSE minimum

\* the match on (minimum, result) inside the for loop of search
MinimumAfter(minimum, r) ==
    IF r[1] = "Exceeded" /\ (minimum = Nothing \/ r[2] < minimum[1])
    THEN Some(r[2])
    ELSE minimum

\* the value of a recursive call of search comes back: the rest of the for
\* loop, or of the loop of solve() when the outermost call returned
IDAStarReturn ==
    /\ alg = IDAStar
    /\ result = "none"
    /\ pc = "return"
    /\ UNCHANGED <<config, call, current_depth, visited, queue, heap, max_depth, cache, evicted,
                   astar_len>>
    /\ IF stack = <<>>
       THEN IF ret = <<"Ok">>
            THEN /\ result' = "Ok"
                 /\ solution' = path
                 /\ UNCHANGED <<board, path, stack, ret, pc, bound>>
            ELSE IF ret = <<"NotFound">>
            THEN /\ result' = "Panic"
                 /\ UNCHANGED <<board, path, stack, ret, pc, bound, solution>>
            ELSE /\ bound' = ret[2]
                 /\ pc' = "call"
                 /\ UNCHANGED <<board, path, stack, ret, result, solution>>
       ELSE IF ret = <<"Ok">>
       THEN /\ stack' = Pop
            /\ UNCHANGED <<board, path, ret, pc, bound, result, solution>>
       ELSE LET minimum == MinimumAfter(Top.minimum, ret)
                undone == undo_move_sequence(Here, Top.moves[Top.index])
            IN  IF Top.index < Len(Top.moves)
                THEN IF ~CanApply(undone.board, Top.moves[Top.index + 1])
                     THEN /\ result' = "Panic"
                          /\ UNCHANGED <<board, path, stack, ret, pc, bound, solution>>
                     ELSE /\ board' = apply_move_sequence(undone, Top.moves[Top.index + 1]).board
                          /\ path' = apply_move_sequence(undone, Top.moves[Top.index + 1]).path
                          /\ stack' = [stack EXCEPT ![Len(stack)].index = @ + 1,
                                                    ![Len(stack)].minimum = minimum]
                          /\ pc' = "call"
                          /\ UNCHANGED <<ret, bound, result, solution>>
                ELSE /\ board' = undone.board
                     /\ path' = undone.path
                     /\ stack' = Pop
                     /\ ret' = IF minimum = Nothing THEN <<"NotFound">>
                               ELSE <<"Exceeded", minimum[1]>>
                     /\ UNCHANGED <<pc, bound, result, solution>>

InitIDAStar == Constructed(IDAStar, InitialBoards)
NextIDAStar == IDAStarSolve \/ IDAStarSearch \/ IDAStarReturn
SpecIDAStar == InitIDAStar /\ [][NextIDAStar]_vars

\* ----------------------------------------------------------------- SMA*
\* SMAStarNode::eq
SameNode(a, b) == a.board = b.board /\ a.path = b.path

\* SMAStarNode::cmp = Less: lower f-cost first, the deeper node among equals
NodeLess(a, b) ==
    \/ a.f_cost < b.f_cost
    \/ a.f_cost = b.f_cost /\ Len(a.path) > Len(b.path)

\* SMAStarNode::cmp = Equal
NodeEqual(a, b) == a.f_cost = b.f_cost /\ Len(a.path) = Len(b.path)

Contains(q, node) == \E i \in 1..Len(q) : SameNode(q[i], node)

\* MemoryBoundedAStarSolver::children
children(node) ==
    The({[k \in 1..Len(moves) |->
             SMAStarNode_new(board_after(node.board, moves[k]), node.path \o moves[k],
                             heuristic, cache)]
         : moves \in {generate_moves(node.board, Last(node.path))}})

\* every node goes to the front of the queue
InsertIndices_front(q, node) == {1}

\* the indices binary_search may hand to insert: the index of any element
\* comparing Equal, or else the partition point
InsertIndices(q, node) ==
    IF \E i \in 1..Len(q) : NodeEqual(q[i], node)
    THEN {i \in 1..Len(q) : NodeEqual(q[i], node)}
    ELSE {1 + Cardinality({i \in 1..Len(q) : NodeLess(q[i], node)})}

InsertAt(q, i, node) == SubSeq(q, 1, i - 1) \o <<node>> \o SubSeq(q, i, Len(q))

\* the queues enqueue may leave
enqueue(q, node) ==
    UNION {{InsertAt(q_, i, node_) : i \in InsertIndices(q_, node_)}
           : q_ \in {q}, node_ \in {node}}

IsPrefix(p, full) == Len(p) <= Len(full) /\ SubSeq(full, 1, Len(p)) = p

\* find_parent: index of the resident node with the longest path that is a
\* prefix of the path of node (the last such one), 0 for None
find_parent(q, node) ==
    LET candidates == {i \in 1..Len(q) : IsPrefix(q[i].path, node.path)}
    IN  IF candidates = {} THEN 0
        ELSE CHOOSE i \in candidates :
                \A j \in candidates :
                    \/ Len(q[j].path) < Len(q[i].path)
                    \/ Len(q[j].path) = Len(q[i].path) /\ j <= i

\* reduce_memory on a queue that has nodes
reduce_memory(q) ==
    The({The({IF parent = 0 THEN rest
              ELSE [rest EXCEPT ![parent].best_forgotten_child =
                       IF @ = Nothing THEN Some(deleted.f_cost)
                       ELSE Some(IF @[1] < deleted.f_cost THEN @[1] ELSE deleted.f_cost)]
              : parent \in {find_parent(rest, deleted)}})
         : deleted \in {q[Len(q)]}, rest \in {SubSeq(q, 1, Len(q) - 1)}})

\* full only once the limit is passed
is_memory_full_past_limit(q) == memory_limit # Nothing /\ Len(q) > memory_limit[1]

is_memory_full(q) == memory_limit # Nothing /\ Len(q) >= memory_limit[1]

\* "if self.is_memory_full() { self.reduce_memory() }"
ReduceIfFull(q) == IF is_memory_full(q) THEN reduce_memory(q) ELSE q

\* the greatest element instead
Maximum(S) == CHOOSE x \in S : \A y \in S : x >= y

Minimum(S) == CHOOSE x \in S : \A y \in S : x <= y

Resident(q, node) == q[CHOOSE i \in 1..Len(q) : SameNode(q[i], node)]

\* visit_node on a popped node that is not solved, q being the rest of the
\* queue: the outcomes it can have
VisitOutcomes(q, node) ==
    UNION {
        LET fresh == {k \in 1..Len(kids) : ~Contains(q, kids[k])}
            panic == [panic |-> TRUE, queue |-> q, evicted |-> FALSE]
        IN  IF \/ ~AllApply(node.board, moves)
               \/ \E k \in 1..Len(kids) : kids[k].f_cost = HPanic
            THEN {panic}
            ELSE IF is_memory_full(q) /\ q = <<>>
            THEN {panic}
            ELSE UNION {
                IF fresh # {}
                THEN UNION {
                        \* full_again: is the memory full again once the child
                        \* is enqueued
                        {[panic |-> FALSE, queue |-> q3,
                          evicted |-> is_memory_full(q) \/ full_again] :
                            q3 \in UNION {enqueue(ReduceIfFull(q2), node) :
                                             q2 \in enqueue(reduced, next_child)}}
                        : next_child \in {kids[Minimum(fresh)]},
                          full_again \in
                              {is_memory_full(Append(reduced, kids[Minimum(fresh)]))}}
                ELSE LET bubbled ==
                            [node EXCEPT !.f_cost =
                                IF Len(kids) = 0 THEN @
                                ELSE Minimum({Resident(q, kids[k]).f_cost :
                                                 k \in 1..Len(kids)})]
                     IN  {[panic |-> FALSE, queue |-> q1, evicted |-> is_memory_full(q)] :
                             q1 \in enqueue(reduced, bubbled)}
                : reduced \in {ReduceIfFull(q)}}
        : kids \in {children(node)},
          moves \in {generate_moves(node.board, Last(node.path))}}

\* one turn of the while loop of MemoryBoundedAStarSolver::solve:
\* pop_front, visit_node
SMAStarVisitNode ==
    /\ alg = SMAStar
    /\ result = "none"
    /\ UNCHANGED <<config, call, inplace, pc, visited, heap, max_depth, bound, astar_len>>
    /\ IF queue = <<>>
       THEN /\ result' = "UnsolvableBoard"
            /\ UNCHANGED <<queue, cache, solution, evicted>>
       ELSE LET node == Head(queue)
            IN  IF is_solved(node.board)
                THEN /\ result' = "Ok"
                     /\ solution' = node.path
                     /\ queue' = Tail(queue)
                     /\ UNCHANGED <<cache, evicted>>
                ELSE \E rest \in {Tail(queue)} : \E out \in VisitOutcomes(rest, node) :
                        /\ result' = IF out.panic THEN "Panic" ELSE "none"
                        /\ queue' = out.queue
                        /\ evicted' = (evicted \/ out.evicted)
                        /\ cache' = IF generate_moves(node.board, Last(node.path)) = <<>>
                                    THEN cache ELSE CacheAfterEvaluate(node.board)
                        /\ UNCHANGED solution

InitSMAStar == Constructed(SMAStar, InitialBoards)
NextSMAStar == SMAStarVisitNode
SpecSMAStar == InitSMAStar /\ [][NextSMAStar]_vars

\* ------------------------------------------- comparing SMA* with A*
\* Once A* has returned Ok, construct an SMA* solver on the same board with
\* the same kind of heuristic (a fresh instance) and some memory limit,
\* remembering the length A* returned.
CompareWithSMAStar ==
    /\ alg = AStar
    /\ result = "Ok"
    /\ astar_len' = Some(Len(solution))
    /\ alg' = SMAStar
    /\ memory_limit' \in MemoryLimits
    /\ heap' = {}
    /\ solution' = <<>>
    /\ evicted' = FALSE
    /\ LET root == SMAStarNode_new(initial, <<>>, heuristic, Nothing)
       IN  /\ queue' = IF root.f_cost = HPanic THEN <<>> ELSE <<root>>
           /\ result' = IF root.f_cost = HPanic THEN "Panic" ELSE "none"
           /\ cache' = IF heuristic = ID
                       THEN InversionDistance_cache_after(Nothing, initial)
                       ELSE Nothing
    /\ UNCHANGED <<call, heuristic, initial, inplace, pc, visited, max_depth, bound>>

InitCompare == Constructed(AStar, SolvableBoards)
NextCompare == AStarVisitNode \/ CompareWithSMAStar \/ SMAStarVisitNode
SpecCompare == InitCompare /\ [][NextCompare]_vars

\* ------------------------------------------------------ all strategies
Init == \E a \in Strategies : Constructed(a, InitialBoards)

Next ==
    \/ BFSIteration
    \/ DFSSolve
    \/ PerformIteration
    \/ DFSReturn
    \/ AStarVisitNode
    \/ IDAStarSolve
    \/ IDAStarSearch
    \/ IDAStarReturn
    \/ SMAStarVisitNode

Spec == Init /\ [][Next]_vars

\* SMA* alone, every step it can take being taken eventually: solve() is a
\* loop on one thread and never waits
FairSpecSMAStar == SpecSMAStar /\ WF_vars(NextSMAStar)

\* DFS alone, run to completion
FairSpecDFS == SpecDFS /\ WF_vars(NextDFS)

\* ------------------------------------------------ the oracle on its own
\* every arrangement of the tiles of every board of at most MaxCells cells
AllBoards ==
    UNION {{[rows |-> d[1], columns |-> d[2],
             cells |-> [i \in 1..(d[1] * d[2]) |-> p[i] - 1]] :
                p \in Permutations(1..(d[1] * d[2]))} : d \in Dims}

\* every board some sequence of legal moves leads to from the boards of frontier
RECURSIVE Closure(_, _)
Closure(frontier, seen) ==
    IF frontier = {} THEN seen
    ELSE LET next == (UNION {Neighbours(b) : b \in frontier}) \ seen
         IN  Closure(next, seen \cup next)

\* moves are reversible: the boards that can reach the solved board are the
\* boards the solved board can reach
ReachableFromSolved == [d \in Dims |-> Closure({SolvedBoard(d)}, {SolvedBoard(d)})]

CanBeSolved(b) == b \in ReachableFromSolved[<<b.rows, b.columns>>]

\* DFSSolver::solve consulting the oracle on any board at all
InitOracle == Constructed(DFS, AllBoards)
NextOracle == DFSSolve
SpecOracle == InitOracle /\ [][NextOracle]_vars

\* ================================================================ claims

\* is_valid_solution of the test suite: exec_move each move in turn on a copy
\* of the board (exec_move panics on a move that can_move refuses), then ask
\* is_solved
RECURSIVE Replay(_, _)
Replay(b, moves) ==
    IF moves = <<>> THEN [ok |-> TRUE, board |-> b]
    ELSE IF ~can_move(b, Head(moves)) THEN [ok |-> FALSE, board |-> b]
    ELSE Replay(exec_move(b, Head(moves)), Tail(moves))

is_valid_solution(b, moves) ==
    LET r == Replay(b, moves) IN r.ok /\ is_solved(r.board)

\* C1: whenever a strategy returns Ok(moves), applying moves in order to the
\* original board never attempts an illegal move and ends on the solved board.
C1_SolutionIsValid ==
    result = "Ok" => is_valid_solution(initial, solution)

\* a depth-first answer that wanders: valid although far from shortest
C1_Witness ==
    /\ alg = DFS
    /\ result = "Ok"
    /\ Len(solution) > MinMoves(initial) + 2
    /\ is_valid_solution(initial, solution)

\* C2: is_solvable(board) is true exactly when some sequence of legal moves
\* takes board to the solved arrangement.
C2_OracleIsExact ==
    pc # "start" => ((result # "UnsolvableBoard") <=> CanBeSolved(initial))

\* C3: on a board the oracle rejects every strategy returns UnsolvableBoard,
\* and it does so without searching: nothing is visited, expanded or moved.
C3_RejectedWithoutSearch ==
    /\ [](~is_solvable(initial) =>
            /\ result \in {"none", "UnsolvableBoard"}
            /\ result = "none" => pc \in {"start", "loop"}
            /\ visited = {}
            /\ queue = <<>>
            /\ heap = {}
            /\ stack = <<>>
            /\ board = initial
            /\ path = <<>>
            /\ solution = <<>>)
    /\ [][(~is_solvable(initial) /\ result = "none")
            => result' = "UnsolvableBoard"]_vars

\* a rejected board handed to a strategy whose check sits in solve()
C3_Witness ==
    /\ alg = IDFS
    /\ ~is_solvable(initial)
    /\ ~is_solved(initial)
    /\ result = "UnsolvableBoard"

\* C4: the move sequence BFS returns is as short as any solution of the board.
C4_BFSShortest ==
    (alg = BFS /\ result = "Ok") => Len(solution) = MinMoves(initial)

C4_Witness ==
    /\ alg = BFS
    /\ result = "Ok"
    /\ Len(solution) >= 5
    /\ Len(solution) = MinMoves(initial)

\* C5: A* with the Manhattan heuristic returns a shortest solution, on square
\* and on non-square boards.
C5_AStarManhattanShortest ==
    (alg = AStar /\ heuristic = MD /\ result = "Ok")
        => Len(solution) = MinMoves(initial)

\* a non-square board whose solved arrangement the heuristic does not rate 0
C5_Witness ==
    /\ alg = AStar
    /\ heuristic = MD
    /\ result = "Ok"
    /\ initial.rows # initial.columns
    /\ ManhattanDistance_evaluate(SolvedBoard(<<initial.rows, initial.columns>>)) > 0
    /\ Len(solution) >= 5

\* C6: IDA* with the Manhattan heuristic returns a shortest solution.
C6_IDAStarManhattanShortest ==
    (alg = IDAStar /\ heuristic = MD /\ result = "Ok")
        => Len(solution) = MinMoves(initial)

\* found only after the bound was raised above the root's estimate
C6_Witness ==
    /\ alg = IDAStar
    /\ heuristic = MD
    /\ result = "Ok"
    /\ bound > ManhattanDistance_evaluate(initial)
    /\ Len(solution) >= 5

\* C7: incremental DFS returns a shortest solution.
C7_IDFSShortest ==
    (alg = IDFS /\ result = "Ok") => Len(solution) = MinMoves(initial)

\* C8: plain DFS on a solvable board returns Ok with some solution; it never
\* ends with StateExhausted, StateAlreadyVisited or any other error.
C8_DFSAlwaysOk ==
    /\ [](is_solvable(initial) => result \in {"none", "Ok"})
    /\ (is_solvable(initial) => <>(result = "Ok"))

\* Ok reached although branches were cut by the visited set (the answer is
\* longer than the shortest one and some board was met twice)
C8_Witness ==
    /\ alg = DFS
    /\ result = "Ok"
    /\ Len(solution) > MinMoves(initial)
    /\ Cardinality(visited) > Len(solution) + 1

\* C9: when SMA* evicted nothing during the run, the solution it returns is as
\* long as the one A* returns for the same board and heuristic.
C9_SMAStarMatchesAStar ==
    (alg = SMAStar /\ astar_len # Nothing /\ result = "Ok" /\ ~evicted)
        => Len(solution) = astar_len[1]

\* a bounded run that never filled its memory
C9_Witness ==
    /\ alg = SMAStar
    /\ astar_len # Nothing
    /\ memory_limit # Nothing
    /\ result = "Ok"
    /\ ~evicted
    /\ Len(solution) >= 2
    /\ Len(solution) = astar_len[1]

\* C10: SMA* with any memory limit of at least 1 terminates, with a solution
\* or with an error.
C10_SMAStarTerminates ==
    (memory_limit # Nothing /\ memory_limit[1] >= 1) => <>(result # "none")

\* ============================================== units exercised directly

\* the state of a test that exercises the unit a on one of boards, with one
\* of the heuristics hs; no solver is constructed
Exercising(a, boards, hs) ==
    /\ alg = a
    /\ initial \in boards
    /\ heuristic \in hs
    /\ memory_limit = Nothing
    /\ board = initial
    /\ path = <<>>
    /\ visited = {}
    /\ queue = <<>>
    /\ heap = {}
    /\ stack = <<>>
    /\ pc = "start"
    /\ current_depth = 0
    /\ ret = Nothing
    /\ max_depth = Nothing
    /\ bound = 0
    /\ cache = Nothing
    /\ result = "none"
    /\ solution = <<>>
    /\ evicted = FALSE
    /\ astar_len = Nothing
    /\ call = Nothing

\* what a test leaves alone besides the board, the path and its last call
solver_state ==
    <<alg, heuristic, memory_limit, visited, queue, heap, stack, pc, current_depth,
      ret, max_depth, bound, solution, evicted, astar_len>>

\* -------------------------------------------------- a heuristic alone
HeuristicTest == "HeuristicTest"

\* heuristic.evaluate(&board) on the instance the test holds; a panic
\* inside evaluate ends the test
HeuristicEvaluate ==
    /\ alg = HeuristicTest
    /\ result = "none"
    /\ \E value \in {evaluate(heuristic, cache, board)} :
          /\ call' = Some([op |-> "evaluate", returned |-> value])
          /\ result' = IF value = HPanic THEN "Panic" ELSE "none"
    /\ cache' = CacheAfterEvaluate(board)
    /\ UNCHANGED <<solver_state, initial, board, path>>

SpecHeuristic ==
    Exercising(HeuristicTest, SolvableBoards, Heuristics) /\ [][HeuristicEvaluate]_vars

\* C11: Manhattan distance is admissible: on every solvable board
\* ManhattanDistance.evaluate returns at most the least number of single
\* moves that solves the board (so 0 on the solved board), square or not.
C11_ManhattanAdmissible ==
    (alg = HeuristicTest /\ heuristic = MD /\ call # Nothing)
        => (result = "none" /\ call[1].returned <= MinMoves(board))

\* C12: linear conflict is admissible: on every solvable board
\* LinearConflict.evaluate (Manhattan distance plus 2 for every reversed pair
\* of tiles in their goal row or column) returns at most the least number
\* of single moves that solves the board.
C12_LinearConflictAdmissible ==
    (alg = HeuristicTest /\ heuristic = LC /\ call # Nothing)
        => (result = "none" /\ call[1].returned <= MinMoves(board))

\* C13: inversion distance is admissible: on every solvable board
\* InversionDistance.evaluate returns a value, and the value is at most the
\* least number of single moves that solves the board.
C13_InversionDistanceAdmissible ==
    (alg = HeuristicTest /\ heuristic = ID /\ call # Nothing)
        => (result = "none" /\ call[1].returned <= MinMoves(board))

\* ------------------------------------------------------ a board alone
BoardTest == "BoardTest"

\* board.exec_move(m) on any board for any move; the test keeps the moves it
\* made in path.  The assertion of exec_move fails when can_move is false:
\* the call panics before it touches the cells.
ExecMove ==
    /\ alg = BoardTest
    /\ result = "none"
    /\ Len(path) < MaxWalk
    /\ \E m \in BoardMove :
          /\ call' = Some([op |-> "exec_move", arg |-> m,
                           before |-> [board |-> board, path |-> path]])
          /\ IF can_move(board, m)
             THEN /\ board' = exec_move(board, m)
                  /\ path' = Append(path, m)
                  /\ UNCHANGED result
             ELSE /\ result' = "Panic"
                  /\ UNCHANGED <<board, path>>
    /\ UNCHANGED <<solver_state, initial, cache>>

\* board.is_solved() (&self): the answer is kept in the call
IsSolved ==
    /\ alg = BoardTest
    /\ result = "none"
    /\ call' = Some([op |-> "is_solved", returned |-> is_solved(board),
                     before |-> [board |-> board, path |-> path]])
    /\ UNCHANGED <<solver_state, initial, cache, board, path, result>>

SpecBoard ==
    Exercising(BoardTest, AllBoards, {None}) /\ [][ExecMove \/ IsSolved]_vars

\* a valid board: the cells hold every integer of 0..rows*columns-1 once
IsValidBoard(b) ==
    /\ Len(b.cells) = b.rows * b.columns
    /\ \A v \in 0..(b.rows * b.columns - 1) :
          Cardinality({i \in 1..Len(b.cells) : b.cells[i] = v}) = 1

\* C14: after any sequence of exec_move calls made with can_move true the
\* cells still hold every integer of 0..rows*columns-1 exactly once (so one
\* cell is 0), and rows and columns are what they were.
C14_MovesKeepPermutation ==
    alg = BoardTest
        => /\ IsValidBoard(board)
           /\ board.rows = initial.rows
           /\ board.columns = initial.columns

\* two moves were made, the second not undoing the first
C14_Witness ==
    /\ alg = BoardTest
    /\ Len(path) = 2
    /\ result = "none"
    /\ board # initial
    /\ Cardinality({i \in 1..Len(board.cells) : board.cells[i] # initial.cells[i]}) = 3
    /\ IsValidBoard(board)

\* ------------------------------------ apply_move_sequence and its undo
\* MoveSequence::Single(m) and MoveSequence::Double(fst, snd), any moves
MoveSequences == {<<m>> : m \in BoardMove} \cup (BoardMove \X BoardMove)

\* the moves undo_move_sequence executes for a sequence, in its order
UndoMoves(move_sequence) ==
    IF Len(move_sequence) = 1
    THEN <<opposite(move_sequence[1])>>
    ELSE <<opposite(move_sequence[2]), opposite(move_sequence[1])>>

\* util::apply_move_sequence(&mut board, &mut path, seq): the moves are
\* executed first, then pushed; an exec_move that panics leaves the moves
\* before it on the board and the path as it was
ApplyMoveSequence ==
    /\ alg = BoardTest
    /\ result = "none"
    /\ \E seq \in MoveSequences :
          /\ Len(path) + Len(seq) <= MaxWalk
          /\ call' = Some([op |-> "apply_move_sequence", arg |-> seq,
                           before |-> [board |-> board, path |-> path]])
          /\ IF CanApply(board, seq)
             THEN \E node \in {apply_move_sequence([board |-> board, path |-> path], seq)} :
                     /\ board' = node.board
                     /\ path' = node.path
                     /\ UNCHANGED result
             ELSE /\ board' = Replay(board, seq).board
                  /\ result' = "Panic"
                  /\ UNCHANGED path
    /\ UNCHANGED <<solver_state, initial, cache>>

\* util::undo_move_sequence(&mut board, &mut path, seq) for the sequence
\* applied last; before stays the board and path the sequence was applied to
UndoMoveSequence ==
    /\ alg = BoardTest
    /\ result = "none"
    /\ call # Nothing
    /\ call[1].op = "apply_move_sequence"
    /\ call' = Some([call[1] EXCEPT !.op = "undo_move_sequence"])
    /\ IF CanApply(board, UndoMoves(call[1].arg))
       THEN \E node \in {undo_move_sequence([board |-> board, path |-> path],
                                            call[1].arg)} :
               /\ board' = node.board
               /\ path' = node.path
               /\ UNCHANGED result
       ELSE /\ board' = Replay(board, UndoMoves(call[1].arg)).board
            /\ result' = "Panic"
            /\ UNCHANGED path
    /\ UNCHANGED <<solver_state, initial, cache>>

SpecUtil ==
    /\ Exercising(BoardTest, InitialBoards, {None})
    /\ [][ExecMove \/ ApplyMoveSequence \/ UndoMoveSequence]_vars

\* C15: for every board b and move m with can_move(m): after exec_move(m)
\* the opposite move can be made and making it gives b back; and
\* undo_move_sequence after apply_move_sequence, for a Single and for a
\* Double, does not panic and restores both board and path.
C15_MoveRoundTrip ==
    (alg = BoardTest /\ call # Nothing)
        => /\ (call[1].op = "exec_move" /\ result = "none")
                => /\ can_move(board, opposite(call[1].arg))
                   /\ exec_move(board, opposite(call[1].arg)) = call[1].before.board
           /\ call[1].op = "undo_move_sequence"
                => /\ result = "none"
                   /\ board = call[1].before.board
                   /\ path = call[1].before.path

\* a Double that turns a corner was applied and then undone
C15_Witness ==
    /\ alg = BoardTest
    /\ call # Nothing
    /\ call[1].op = "undo_move_sequence"
    /\ Len(call[1].arg) = 2
    /\ call[1].arg[1] \in {Up, Down}
    /\ call[1].arg[2] \in {Left, Right}
    /\ result = "none"
    /\ board = call[1].before.board
    /\ path = call[1].before.path

\* b with the cells at (1-based) indices i and j exchanged
Transposed(b, i, j) ==
    [b EXCEPT !.cells = [@ EXCEPT ![i] = b.cells[j], ![j] = b.cells[i]]]

\* C16: is_solved() is true if and only if the cells are 1, 2, ...,
\* rows*columns-1, 0; it is false on every board one transposition of two
\* cells away from the solved board; and the call leaves the board alone.
C16_SolvedCheckExact ==
    (alg = BoardTest /\ call # Nothing /\ call[1].op = "is_solved")
        => LET n == board.rows * board.columns
               solved == SolvedBoard(<<board.rows, board.columns>>)
           IN  /\ call[1].returned
                    <=> board.cells = [i \in 1..n |-> IF i = n THEN 0 ELSE i]
               /\ (\E i, j \in 1..n : i < j /\ board = Transposed(solved, i, j))
                    => ~call[1].returned
               /\ board = call[1].before.board

\* the check answered false on a board whose blank is in the last cell and
\* which is one transposition of two tiles away from solved
C16_Witness ==
    /\ alg = BoardTest
    /\ call # Nothing
    /\ call[1].op = "is_solved"
    /\ ~call[1].returned
    /\ board.cells[Len(board.cells)] = 0
    /\ \E i, j \in 1..(Len(board.cells) - 1) :
          i < j /\ board = Transposed(SolvedBoard(<<board.rows, board.columns>>), i, j)

\* C17: exec_move(dir) with can_move(dir) true moves the blank exactly one
\* cell in direction dir (Up: row-1, Down: row+1, Left: column-1, Right:
\* column+1), puts the tile that was there into the cell the blank left, and
\* leaves every other cell as it was.
C17_MoveFrame ==
    (alg = BoardTest /\ call # Nothing /\ call[1].op = "exec_move" /\ result = "none")
        => LET old == call[1].before.board
               n == Len(old.cells)
               from == CHOOSE i \in 1..n : old.cells[i] = 0
               to == CASE call[1].arg = Up -> from - old.columns
                       [] call[1].arg = Down -> from + old.columns
                       [] call[1].arg = Left -> from - 1
                       [] call[1].arg = Right -> from + 1
           IN  /\ to \in 1..n
               /\ call[1].arg \in {Left, Right}
                    => (to - 1) \div old.columns = (from - 1) \div old.columns
               /\ board.cells[to] = 0
               /\ board.cells[from] = old.cells[to]
               /\ \A i \in (1..n) \ {from, to} : board.cells[i] = old.cells[i]
               /\ board.rows = old.rows /\ board.columns = old.columns

\* a move Up on a board of at least two rows and two columns, after a move
\* to the side
C17_Witness ==
    /\ alg = BoardTest
    /\ call # Nothing
    /\ call[1].op = "exec_move"
    /\ call[1].arg = Up
    /\ result = "none"
    /\ path \in {<<Left, Up>>, <<Right, Up>>}
    /\ board.columns >= 2
    /\ board # call[1].before.board

\* C18: can_move(dir) is true exactly when the blank is not on the edge of
\* the board in direction dir (Up: row > 0, Down: row < rows-1, Left:
\* column > 0, Right: column < columns-1); exec_move(dir) with can_move(dir)
\* false panics and swaps nothing.
C18_CanMoveExact ==
    alg = BoardTest
        => /\ LET blank == (CHOOSE i \in 1..Len(board.cells) : board.cells[i] = 0) - 1
                  row == blank \div board.columns
                  column == blank % board.columns
              IN  /\ can_move(board, Up) <=> row > 0
                  /\ can_move(board, Down) <=> row < board.rows - 1
                  /\ can_move(board, Left) <=> column > 0
                  /\ can_move(board, Right) <=> column < board.columns - 1
           /\ (call # Nothing /\ call[1].op = "exec_move")
                => /\ result = "Panic" <=> ~can_move(call[1].before.board, call[1].arg)
                   /\ result = "Panic" => /\ board = call[1].before.board
                                          /\ path = call[1].before.path

\* after a move Down the test asked for a second move Down on a board of two
\* rows: the call panicked and the board is as the first move left it
C18_Witness ==
    /\ alg = BoardTest
    /\ call # Nothing
    /\ call[1].op = "exec_move"
    /\ call[1].arg = Down
    /\ path = <<Down>>
    /\ board.rows = 2
    /\ result = "Panic"
    /\ board = call[1].before.board
    /\ board # initial

\* ------------------------------------------------ the move generator alone
\* generator.generate_moves(&board, previous_move) with the default search
\* order, on any board and for any previous move or none
GenerateMoves ==
    /\ alg = BoardTest
    /\ result = "none"
    /\ \E previous_move \in BoardMove \cup {None} :
          call' = Some([op |-> "generate_moves", arg |-> previous_move,
                        returned |-> generate_moves(board, previous_move),
                        before |-> [board |-> board, path |-> path]])
    /\ UNCHANGED <<solver_state, initial, cache, board, path, result>>

SpecMoveGen == Exercising(BoardTest, AllBoards, {None}) /\ [][GenerateMoves]_vars

\* C19: generate_moves returns only Single sequences when the taxicab
\* distance of the blank to the bottom-right corner is odd and only Double
\* sequences when it is even, whatever the previous move; never both kinds.
C19_SequencesMatchParity ==
    (alg = BoardTest /\ call # Nothing /\ call[1].op = "generate_moves")
        => LET blank == (CHOOSE i \in 1..Len(board.cells) : board.cells[i] = 0) - 1
               distance == (board.rows - 1 - (blank \div board.columns))
                             + (board.columns - 1 - (blank % board.columns))
               moves == call[1].returned
           IN  /\ distance % 2 = 1 => \A k \in 1..Len(moves) : Len(moves[k]) = 1
               /\ distance % 2 = 0 => \A k \in 1..Len(moves) : Len(moves[k]) = 2
               /\ \A k, l \in 1..Len(moves) : Len(moves[k]) = Len(moves[l])

\* Doubles were generated after a previous move, with the blank in the
\* bottom-right corner of a board of at least two rows and two columns
C19_Witness ==
    /\ alg = BoardTest
    /\ call # Nothing
    /\ call[1].op = "generate_moves"
    /\ call[1].arg # None
    /\ board.rows >= 2 /\ board.columns >= 2
    /\ board.cells[Len(board.cells)] = 0
    /\ Len(call[1].returned) >= 2
    /\ \A k \in 1..Len(call[1].returned) : Len(call[1].returned[k]) = 2

\* C20: every sequence generate_moves returns can be applied to the board it
\* was generated for: can_move holds for its first move on that board and,
\* for a Double, for its second move on the board after the first.
C20_GeneratedMovesApply ==
    (alg = BoardTest /\ call # Nothing /\ call[1].op = "generate_moves")
        => \A k \in 1..Len(call[1].returned) :
              LET seq == call[1].returned[k]
              IN  /\ can_move(board, seq[1])
                  /\ Len(seq) = 2 => can_move(exec_move(board, seq[1]), seq[2])

\* Doubles that turn a corner were generated with the blank in the middle
\* of an edge
C20_Witness ==
    /\ alg = BoardTest
    /\ call # Nothing
    /\ call[1].op = "generate_moves"
    /\ board.rows = 2 /\ board.columns = 3
    /\ board.cells[2] = 0
    /\ \E k \in 1..Len(call[1].returned) : call[1].returned[k] = <<Down, Right>>
    /\ \E k \in 1..Len(call[1].returned) : call[1].returned[k] = <<Left, Down>>
    /\ \A k \in 1..Len(call[1].returned) : CanApply(board, call[1].returned[k])

\* C21: no sequence generate_moves returns for a previous move starts with
\* the opposite of that move, and no Double it returns (with or without a
\* previous move) has a second move opposite to its first.
C21_NoBackAndForth ==
    (alg = BoardTest /\ call # Nothing /\ call[1].op = "generate_moves")
        => \A k \in 1..Len(call[1].returned) :
              LET seq == call[1].returned[k]
              IN  /\ call[1].arg # None => seq[1] # opposite(call[1].arg)
                  /\ Len(seq) = 2 => seq[2] # opposite(seq[1])

\* the move back was executable and was left out, as a first move and as
\* the second move of the Doubles that were generated
C21_Witness ==
    /\ alg = BoardTest
    /\ call # Nothing
    /\ call[1].op = "generate_moves"
    /\ call[1].arg # None
    /\ can_move(board, opposite(call[1].arg))
    /\ call[1].returned # <<>>
    /\ \A k \in 1..Len(call[1].returned) :
          /\ Len(call[1].returned[k]) = 2
          /\ call[1].returned[k][1] # opposite(call[1].arg)
          /\ call[1].returned[k][2] # opposite(call[1].returned[k][1])

\* C22 as stated: with no previous move every direction the blank can move
\* in starts at least one returned sequence, and the sequences are returned
\* in the search order, by first move and then by second move.
C22_EveryFeasibleDirectionFirst ==
    (alg = BoardTest /\ call # Nothing /\ call[1].op = "generate_moves"
       /\ call[1].arg = None)
        => LET returned == call[1].returned
               index(m) == CHOOSE i \in 1..Len(search_order) : search_order[i] = m
           IN  /\ \A m \in BoardMove :
                     can_move(board, m)
                        => \E k \in 1..Len(returned) : returned[k][1] = m
               /\ \A k, l \in 1..Len(returned) :
                     k < l => \/ index(returned[k][1]) < index(returned[l][1])
                              \/ /\ returned[k][1] = returned[l][1]
                                 /\ Len(returned[k]) = 2
                                 /\ Len(returned[l]) = 2
                                 /\ index(returned[k][2]) < index(returned[l][2])

\* C22 amended: with no previous move a direction the blank can move in
\* starts a returned sequence whenever Singles are generated or some move
\* other than the way back can follow it, which is always so on a board
\* with two or more rows and two or more columns; the sequences are
\* returned in the search order on every board.
C22_FeasibleDirectionsWithSecondMove ==
    (alg = BoardTest /\ call # Nothing /\ call[1].op = "generate_moves"
       /\ call[1].arg = None)
        => LET returned == call[1].returned
               index(m) == CHOOSE i \in 1..Len(search_order) : search_order[i] = m
               can_continue(m) ==
                   \E second \in BoardMove :
                       /\ second # opposite(m)
                       /\ can_move(exec_move(board, m), second)
           IN  /\ \A m \in BoardMove :
                     (can_move(board, m)
                        /\ (required_moves_parity(board) = Odd \/ can_continue(m)))
                        => \E k \in 1..Len(returned) : returned[k][1] = m
               /\ \A m \in BoardMove :
                     (can_move(board, m) /\ board.rows >= 2 /\ board.columns >= 2)
                        => can_continue(m)
               /\ \A k, l \in 1..Len(returned) :
                     k < l => \/ index(returned[k][1]) < index(returned[l][1])
                              \/ /\ returned[k][1] = returned[l][1]
                                 /\ Len(returned[k]) = 2
                                 /\ Len(returned[l]) = 2
                                 /\ index(returned[k][2]) < index(returned[l][2])

\* Doubles were generated without a previous move for a blank in the top
\* row of a 2x3 board: all three feasible directions start a sequence
C22_Witness ==
    /\ alg = BoardTest
    /\ call # Nothing
    /\ call[1].op = "generate_moves"
    /\ call[1].arg = None
    /\ board.rows = 2 /\ board.columns = 3
    /\ board.cells[2] = 0
    /\ call[1].returned = <<<<Down, Left>>, <<Down, Right>>, <<Left, Down>>,
                             <<Right, Down>>>>

\* ------------------------------------------- parity, exercised directly
\* a + b for two parities
ParityAddCall ==
    /\ alg = BoardTest /\ result = "none"
    /\ \E a, b \in {Even, Odd} :
          call' = Some([op |-> "add", arg |-> <<a, b>>, returned |-> ParityAdd(a, b)])
    /\ UNCHANGED <<solver_state, initial, cache, board, path, result>>

\* Parity::from(value)
ParityFromCall ==
    /\ alg = BoardTest /\ result = "none"
    /\ \E value \in 0..(MaxSide * MaxSide) :
          call' = Some([op |-> "from", arg |-> value, returned |-> ParityFrom(value)])
    /\ UNCHANGED <<solver_state, initial, cache, board, path, result>>

\* solved_board_parity of the board next to permutation_parity of its cells
SolvedBoardParity ==
    /\ alg = BoardTest /\ result = "none"
    /\ call' = Some([op |-> "solved_board_parity",
                     returned |-> solved_board_parity(board),
                     permutation_parity |-> permutation_parity(board.cells)])
    /\ UNCHANGED <<solver_state, initial, cache, board, path, result>>

\* the solved boards of every dimension pair up to MaxSide x MaxSide
SpecParity ==
    /\ Exercising(BoardTest,
                  {SolvedBoard(d) : d \in {x \in (1..MaxSide) \X (1..MaxSide) :
                                               x[1] * x[2] >= 2}},
                  {None})
    /\ [][ParityAddCall \/ ParityFromCall \/ SolvedBoardParity]_vars

\* C23: parity addition is a two-element group with identity Even (every
\* sum a + b returned satisfies Even + a = a, a + a = Even, a + b = b + a
\* and (a + b) + c = a + (b + c) for every c), Parity::from(n) is Odd
\* exactly when n is odd, and solved_board_parity of a solved board equals
\* permutation_parity of its cell sequence.
C23_ParityGroup ==
    (alg = BoardTest /\ call # Nothing) =>
        /\ call[1].op = "add" =>
              LET a == call[1].arg[1]
                  b == call[1].arg[2]
              IN  /\ call[1].returned \in {Even, Odd}
                  /\ a = Even => call[1].returned = b
                  /\ a = b => call[1].returned = Even
                  /\ call[1].returned = ParityAdd(b, a)
                  /\ \A c \in {Even, Odd} :
                        ParityAdd(call[1].returned, c) = ParityAdd(a, ParityAdd(b, c))
        /\ call[1].op = "from" =>
              (call[1].returned = Odd <=> call[1].arg % 2 = 1)
        /\ call[1].op = "from" => call[1].returned \in {Even, Odd}
        /\ call[1].op = "solved_board_parity" =>
              call[1].returned = call[1].permutation_parity

\* the solved 3x4 board is one cycle of 12 cells: both parities are Odd
C23_Witness ==
    /\ alg = BoardTest
    /\ call # Nothing
    /\ call[1].op = "solved_board_parity"
    /\ board = SolvedBoard(<<3, 4>>)
    /\ call[1].returned = Odd
    /\ call[1].permutation_parity = Odd
    /\ CycleLengths(board.cells, 1, {}) = <<12>>

\* C24: incremental DFS does no visited-state pruning: a perform_iteration
\* entered below the depth cap on an unsolved board that was already
\* reached in the same iteration does not return StateAlreadyVisited.
C24_IDFSExpandsRevisited ==
    [][(alg = IDFS /\ result = "none" /\ pc = "call" /\ ~is_solved(board)
          /\ board \in visited /\ current_depth < max_depth[1])
         => ~(pc' = "return" /\ ret' = <<"StateAlreadyVisited">>)]_vars

\* C25: in incremental DFS the depth cap is at least 1 and the depth counter
\* a perform_iteration is entered with equals the number of move sequences
\* applied from the root (one per frame of the recursion).
C25_DepthCountsSequences ==
    (alg = IDFS /\ result = "none" /\ pc = "call")
        => /\ max_depth # Nothing
           /\ max_depth[1] >= 1
           /\ current_depth = Len(stack)

\* C26: within one plain DFS run and one BFS run the visited set only
\* grows; an unsolved board found in it is rejected without generating its
\* moves (DFS returns StateAlreadyVisited, BFS drops the queue entry), and
\* an unsolved board not in it is added as its moves are generated; so no
\* board has its moves generated twice.
C26_ExpandedOnce ==
    [][/\ alg \in {DFS, BFS} => visited \subseteq visited'
       /\ (alg = DFS /\ result = "none" /\ pc = "call" /\ ~is_solved(board))
             => IF board \in visited
                THEN /\ pc' = "return"
                     /\ ret' = <<"StateAlreadyVisited">>
                     /\ stack' = stack
                     /\ visited' = visited
                ELSE board \in visited'
       /\ (alg = BFS /\ result = "none" /\ queue # <<>>
             /\ ~is_solved(Head(queue).board))
             => IF Head(queue).board \in visited
                THEN queue' = Tail(queue) /\ visited' = visited
                ELSE Head(queue).board \in visited']_vars

\* plain DFS came back to a board it had expanded and backtracked
C26_Witness ==
    /\ alg = DFS
    /\ result = "none"
    /\ pc = "return"
    /\ ret = <<"StateAlreadyVisited">>
    /\ board \in visited
    /\ ~is_solved(board)
    /\ stack # <<>>

\* C27: the shared board of DFS, incremental DFS and IDA* always equals the
\* initial board with the current path applied: it is the initial board
\* while the path is empty, and every step leaves board and path alone,
\* applies one move sequence to both or undoes the last one on both; when
\* perform_iteration or search has returned a failure the path is the one
\* its call was entered with (the sequences in progress in the callers'
\* loops, nothing at all for the outermost call); every frontier entry of
\* BFS, A* and SMA* holds the initial board with its own path applied.
C27_PathBoardConsistent ==
    /\ [](LET consistent(node) ==
                  Replay(initial, node.path) = [ok |-> TRUE, board |-> node.board]
              RECURSIVE entered_with(_)
              entered_with(k) ==
                  IF k = 0 THEN <<>>
                  ELSE entered_with(k - 1) \o stack[k].moves[stack[k].index]
              in_place == alg \in {DFS, IDFS, IDAStar}
          IN  /\ (in_place /\ path = <<>>) => board = initial
              /\ (in_place /\ result = "Ok") => consistent(Here)
              /\ (in_place /\ pc = "return" /\ ret # <<"Ok">>)
                    => /\ path = entered_with(Len(stack))
                       /\ stack = <<>> => (board = initial /\ path = <<>>)
              /\ alg \in {BFS, SMAStar}
                    => \A k \in 1..Len(queue) : consistent(queue[k])
              /\ alg = AStar => \A node \in heap : consistent(node))
    /\ [][(alg \in {DFS, IDFS, IDAStar}) =>
           (\/ board' = board /\ path' = path
            \/ \E seq \in MoveSequences :
                  /\ path' = path \o seq
                  /\ CanApply(board, seq)
                  /\ board' = board_after(board, seq)
            \/ \E seq \in MoveSequences :
                  /\ path = path' \o seq
                  /\ CanApply(board', seq)
                  /\ board = board_after(board', seq)
            \/ \E undone, applied \in MoveSequences :
                  /\ Len(path) >= Len(undone)
                  /\ path = SubSeq(path, 1, Len(path) - Len(undone)) \o undone
                  /\ path' = SubSeq(path, 1, Len(path) - Len(undone)) \o applied
                  /\ CanApply(board, UndoMoves(undone))
                  /\ \E back \in {board_after(board, UndoMoves(undone))} :
                        /\ CanApply(back, undone)
                        /\ board = board_after(back, undone)
                        /\ CanApply(back, applied)
                        /\ board' = board_after(back, applied))]_vars

\* an IDA* iteration that moved the board failed with an exceeding cost and
\* left the initial board and an empty path
C27_Witness ==
    /\ alg = IDAStar
    /\ result = "none"
    /\ pc = "return"
    /\ stack = <<>>
    /\ ret # Nothing
    /\ ret[1] = "Exceeded"
    /\ ret[2] > bound
    /\ bound > evaluate(heuristic, cache, initial)
    /\ board = initial
    /\ path = <<>>

\* C28: in IDA* the first bound is the heuristic value of the initial
\* board; an iteration that fails returns Exceeded(x), where x is the least
\* f-cost among the nodes of the iteration's tree that were cut off for
\* exceeding the bound, and x is greater than the bound; the next
\* iteration uses x as its bound, and the bound changes at no other step,
\* so the bounds strictly increase.
C28_BoundsIncrease ==
    /\ [](LET RECURSIVE cut_off(_)
              \* the f-costs of the nodes cut off below node under the bound
              cut_off(node) ==
                  IF f_cost(node) > bound THEN {f_cost(node)}
                  ELSE IF is_solved(node.board) THEN {}
                  ELSE LET moves == generate_moves(node.board, Last(node.path))
                       IN  UNION {cut_off(apply_move_sequence(node, moves[k]))
                                    : k \in 1..Len(moves)}
          IN  (alg = IDAStar /\ result = "none" /\ pc = "return" /\ stack = <<>>
                 /\ ret # <<"Ok">>)
                => /\ ret[1] = "Exceeded"
                   /\ ret[2] > bound
                   /\ ret[2] \in cut_off(RootNode(initial))
                   /\ \A x \in cut_off(RootNode(initial)) : ret[2] <= x)
    /\ [][(alg = IDAStar) =>
           (IF pc = "start"
            THEN pc' = "call" => bound' = evaluate(heuristic, cache, initial)
            ELSE IF pc = "return" /\ stack = <<>> /\ ret # <<"Ok">> /\ result' = "none"
            THEN bound' = ret[2] /\ bound' > bound /\ pc' = "call"
            ELSE bound' = bound)]_vars

\* a later iteration failed as well: the bound was raised above the root's
\* estimate before and is about to be raised again, from the initial board
C28_Witness ==
    /\ alg = IDAStar
    /\ heuristic = LC
    /\ result = "none"
    /\ pc = "return"
    /\ stack = <<>>
    /\ ret # Nothing
    /\ ret[1] = "Exceeded"
    /\ bound > evaluate(heuristic, cache, initial)
    /\ ret[2] > bound
    /\ board = initial

\* C29: IDA* on a solvable board with at least 2 rows and 2 columns: no
\* search returns NotFound, at the top level (where solve would hit its
\* unreachable! arm) or below it, and every unsolved node within the bound
\* has at least one generated child.
C29_NeverNotFound ==
    (alg = IDAStar /\ is_solvable(initial)
       /\ initial.rows >= 2 /\ initial.columns >= 2)
        => /\ ret # <<"NotFound">>
           /\ (pc = "return" /\ stack = <<>> /\ ret # <<"Ok">>) => ret[1] = "Exceeded"
           /\ (result = "none" /\ pc = "call" /\ ~is_solved(board)
                 /\ f_cost(Here) # HPanic /\ f_cost(Here) <= bound)
                 => generate_moves(board, Last(path)) # <<>>

\* the tightest node: reached by a move into a place that leaves a single
\* sequence to generate, within the bound and not solved
C29_Witness ==
    /\ alg = IDAStar
    /\ initial.rows >= 2 /\ initial.columns >= 2
    /\ result = "none"
    /\ pc = "call"
    /\ path # <<>>
    /\ ~is_solved(board)
    /\ f_cost(Here) # HPanic
    /\ f_cost(Here) <= bound
    /\ Len(generate_moves(board, Last(path))) = 1

\* C30: SMA* with a memory limit L >= 1 never holds more than L nodes in
\* its queue, after construction and after every visit_node.
C30_QueueWithinLimit ==
    (alg = SMAStar /\ memory_limit # Nothing /\ memory_limit[1] >= 1)
        => Len(queue) <= memory_limit[1]

\* the queue is exactly at a limit of two or more after nodes were evicted
C30_Witness ==
    /\ alg = SMAStar
    /\ memory_limit # Nothing
    /\ memory_limit[1] >= 2
    /\ result = "none"
    /\ evicted
    /\ Len(queue) = memory_limit[1]

\* C31: the SMA* queue is sorted in every reachable state, by f-cost
\* ascending and deeper path first among equal costs; so its front, the
\* node popped next, is least of all resident nodes in that order and its
\* back, the node reduce_memory removes, is greatest.
C31_QueueSorted ==
    alg = SMAStar
        => /\ \A i, j \in 1..Len(queue) : i < j => ~NodeLess(queue[j], queue[i])
           /\ \A k \in 1..Len(queue) :
                 /\ queue[1].f_cost <= queue[k].f_cost
                 /\ queue[1].f_cost = queue[k].f_cost
                       => Len(queue[1].path) >= Len(queue[k].path)
                 /\ queue[Len(queue)].f_cost >= queue[k].f_cost
                 /\ queue[Len(queue)].f_cost = queue[k].f_cost
                       => Len(queue[Len(queue)].path) <= Len(queue[k].path)

\* after an eviction: three or more resident nodes, two of them of equal
\* cost and different depth
C31_Witness ==
    /\ alg = SMAStar
    /\ result = "none"
    /\ evicted
    /\ Len(queue) >= 3
    /\ \E i, j \in 1..Len(queue) :
          /\ i < j
          /\ queue[i].f_cost = queue[j].f_cost
          /\ Len(queue[i].path) > Len(queue[j].path)
    /\ queue[1].f_cost < queue[Len(queue)].f_cost

\* C32: when a visit_node evicts the child it has just generated (the
\* child was not resident before and is not resident after the visit), the
\* cost of that child is backed up to its parent, the visited node: the
\* node is resident afterwards with best_forgotten_child the least of its
\* previous value and the cost of the child.
C32_EvictedChildBackedUp ==
    [][(alg = SMAStar /\ result = "none" /\ result' = "none" /\ queue # <<>>
          /\ ~is_solved(Head(queue).board))
         => \A node \in {Head(queue)} : \A kids \in {children(Head(queue))} :
              \A fresh \in {{k \in 1..Len(kids) : ~Contains(Tail(queue), kids[k])}} :
                (fresh # {} /\ ~Contains(queue', kids[Minimum(fresh)]))
                  => \E i \in 1..Len(queue') :
                        /\ SameNode(queue'[i], node)
                        /\ queue'[i].best_forgotten_child =
                              IF node.best_forgotten_child = Nothing
                                 \/ kids[Minimum(fresh)].f_cost < node.best_forgotten_child[1]
                              THEN Some(kids[Minimum(fresh)].f_cost)
                              ELSE node.best_forgotten_child]_vars

\* C33: a visit_node of an unsolved node that returns leaves the node in
\* the queue, which is therefore not empty; the only node it can add is the
\* first child in generation order that was not resident, and then the cost
\* of the node is unchanged; when every child was resident the cost of the
\* node becomes the least cost among those resident children (and stays
\* as it was when there is no child at all).
C33_OneChildPerVisit ==
    [][(alg = SMAStar /\ result = "none" /\ result' = "none" /\ queue # <<>>
          /\ ~is_solved(Head(queue).board))
         => \A node \in {Head(queue)} : \A kids \in {children(Head(queue))} :
              \A fresh \in {{k \in 1..Len(kids) : ~Contains(Tail(queue), kids[k])}} :
                /\ queue' # <<>>
                /\ \E i \in 1..Len(queue') :
                      /\ SameNode(queue'[i], node)
                      /\ IF fresh # {} \/ Len(kids) = 0
                         THEN queue'[i].f_cost = node.f_cost
                         ELSE /\ \E k \in 1..Len(kids) :
                                    queue'[i].f_cost = Resident(Tail(queue), kids[k]).f_cost
                              /\ \A k \in 1..Len(kids) :
                                    queue'[i].f_cost <= Resident(Tail(queue), kids[k]).f_cost
                /\ \A i \in 1..Len(queue') :
                      ~Contains(queue, queue'[i])
                         => \E k \in fresh :
                               /\ \A j \in fresh : k <= j
                               /\ SameNode(queue'[i], kids[k])]_vars

\* a resident node whose cost was raised above its own estimate by its
\* resident children, next to a node that still has its own cost
C33_Witness ==
    /\ alg = SMAStar
    /\ result = "none"
    /\ Len(queue) >= 2
    /\ \E i \in 1..Len(queue) :
          /\ evaluate(heuristic, cache, queue[i].board) # HPanic
          /\ queue[i].f_cost > evaluate(heuristic, cache, queue[i].board) + Len(queue[i].path)
    /\ \E i \in 1..Len(queue) :
          /\ queue[i].path # <<>>
          /\ queue[i].f_cost = evaluate(heuristic, cache, queue[i].board) + Len(queue[i].path)

\* C34: SMA* with a heuristic that itself returns on every board (Manhattan
\* distance, linear conflict) never aborts, whatever the memory limit, 0
\* included: its expectations "If memory is full then queue should have
\* nodes" and "Children should be in memory" always hold.
C34_SMAStarNeverAborts ==
    (alg = SMAStar /\ heuristic \in {MD, LC}) => result # "Panic"

\* C35: on every board, square or not, ManhattanDistance.evaluate returns
\* the sum over the tiles t other than the blank of |row - goal_row(t)| +
\* |column - goal_column(t)|, the goal of t being ((t - 1) div columns,
\* (t - 1) mod columns).
C35_ManhattanIsTaxicabSum ==
    (alg = HeuristicTest /\ heuristic = MD /\ call # Nothing)
        => LET RECURSIVE sum(_)
               \* over the cells at row-major indices i.. of the board
               sum(i) ==
                   IF i > Len(board.cells) THEN 0
                   ELSE LET t == board.cells[i]
                        IN  (IF t = 0 THEN 0
                             ELSE AbsDiff((i - 1) \div board.columns,
                                          (t - 1) \div board.columns)
                                    + AbsDiff((i - 1) % board.columns,
                                              (t - 1) % board.columns))
                              + sum(i + 1)
           IN  call[1].returned = sum(1)

\* C36: for every dimension pair the goal orders InversionDistance caches
\* are the row-major and the column-major reading of the solved board, each
\* holding every value of the board once with the blank last, and evaluate
\* returns a value.
C36_CachedGoalOrders ==
    (alg = HeuristicTest /\ heuristic = ID /\ call # Nothing)
        => \A solved \in {SolvedBoard(<<board.rows, board.columns>>)} :
              /\ cache # Nothing
              /\ cache[1].row_first_order = solved.cells
              /\ cache[1].column_first_order =
                    [k \in 1..Len(solved.cells) |->
                        at(solved, (k - 1) % solved.rows, (k - 1) \div solved.rows)]
              /\ \A v \in 0..(Len(solved.cells) - 1) :
                    /\ Cardinality({k \in 1..Len(solved.cells) :
                                       cache[1].row_first_order[k] = v}) = 1
                    /\ Cardinality({k \in 1..Len(solved.cells) :
                                       cache[1].column_first_order[k] = v}) = 1
              /\ cache[1].column_first_order[Len(solved.cells)] = 0
              /\ result = "none"
              /\ call[1].returned # HPanic

\* --------------------------- one InversionDistance over several boards
\* the next evaluate call on the same heuristic instance, on any board
EvaluateNext ==
    /\ alg = HeuristicTest /\ result = "none"
    /\ \E b \in UNION {LayersOf[d][j + 1] : d \in Dims, j \in 0..MaxWalk} :
          /\ board' = b
          /\ \E value \in {evaluate(heuristic, cache, b)} :
                /\ call' = Some([op |-> "evaluate", returned |-> value, before |-> cache])
                /\ result' = IF value = HPanic THEN "Panic" ELSE "none"
          /\ cache' = IF heuristic = ID THEN InversionDistance_cache_after(cache, b)
                      ELSE cache
    /\ UNCHANGED <<solver_state, initial, path>>

SpecCache ==
    Exercising(HeuristicTest, {SolvedBoard(d) : d \in {x \in Dims : x[1] = 1}}, {ID})
        /\ [][EvaluateNext]_vars

\* C37: the cache of InversionDistance is transparent: whatever boards were
\* evaluated before, a call behaves as on a fresh instance (the same value,
\* or the same failure), and leaves the cache a fresh instance would
\* leave: the goal orders built for the dimensions of the board just
\* evaluated, the very cache it found when that held these dimensions.
C37_CacheTransparent ==
    (alg = HeuristicTest /\ heuristic = ID /\ call # Nothing)
        => /\ call[1].returned = InversionDistance_evaluate(Nothing, board)
           /\ cache = Some(InversionDistanceCache_new(board))
           /\ cache[1].rows = board.rows /\ cache[1].columns = board.columns
           /\ (call[1].before # Nothing
                 /\ call[1].before[1].rows = board.rows
                 /\ call[1].before[1].columns = board.columns)
                 => cache = call[1].before

\* a 2x2 board away from its goal evaluated right after a board of other
\* dimensions: the cache was rebuilt and the value is that of a fresh one
C37_Witness ==
    /\ alg = HeuristicTest
    /\ heuristic = ID
    /\ call # Nothing
    /\ call[1].before # Nothing
    /\ call[1].before[1].columns # board.columns
    /\ board.rows = 2 /\ board.columns = 2
    /\ result = "none"
    /\ call[1].returned > 0
    /\ cache[1].column_first_order = <<1, 3, 2, 0>>

\* C38: a single move of the blank flips the parity of its taxicab distance
\* to the bottom-right corner, and every sequence generate_moves returns
\* leaves that distance even; so in every solver each node but the root
\* has an even distance, only the root is expanded with Singles, and the
\* number of moves on a path has the parity of the initial distance.
C38_EvenAfterFirstSequence ==
    LET distance(b) ==
            LET blank == (CHOOSE i \in 1..Len(b.cells) : b.cells[i] = 0) - 1
            IN  (b.rows - 1 - (blank \div b.columns))
                  + (b.columns - 1 - (blank % b.columns))
        nodes == {[board |-> board, path |-> path]}
                    \cup {queue[i] : i \in 1..Len(queue)}
                    \cup heap
    IN  (alg \in Strategies)
            => \A n \in nodes :
                  /\ n.path # <<>>
                        => /\ distance(n.board) % 2 = 0
                           /\ Len(n.path) % 2 = distance(initial) % 2
                  /\ \A m \in BoardMove :
                        can_move(n.board, m)
                            => distance(exec_move(n.board, m)) % 2
                                  # distance(n.board) % 2
                  /\ \A seq \in UNION {{moves[k] : k \in 1..Len(moves)} :
                                        moves \in {generate_moves(n.board, Last(n.path))}} :
                        /\ Len(seq) = 1 => n.path = <<>>
                        /\ CanApply(n.board, seq)
                              => distance(board_after(n.board, seq)) % 2 = 0

\* breadth-first search holds a node reached by a Single and a Double from
\* an initial board whose blank is at an odd distance
C38_Witness ==
    /\ alg = BFS
    /\ result = "none"
    /\ (initial.rows - 1 - empty_cell_pos(initial)[1]
          + initial.columns - 1 - empty_cell_pos(initial)[2]) % 2 = 1
    /\ \E i \in 1..Len(queue) :
          /\ Len(queue[i].path) = 3
          /\ empty_cell_pos(queue[i].board) # empty_cell_pos(initial)
          /\ required_moves_parity(queue[i].board) = Even

\* ------------------------------------- the two permutation parities
\* both implementations called on the cells of the board
PermutationParityCall ==
    /\ alg = BoardTest /\ result = "none"
    /\ call' = Some([op |-> "permutation_parity",
                     arg |-> board.cells,
                     returned |-> permutation_parity(board.cells),
                     calculate_parity |-> calculate_parity(board.cells)])
    /\ UNCHANGED <<solver_state, initial, cache, board, path, result>>

\* every permutation of 0..n for up to MaxCells values
SpecPermutation ==
    /\ Exercising(BoardTest, {b \in AllBoards : b.rows = 1}, {None})
    /\ [][PermutationParityCall]_vars

\* C39: calculate_parity and permutation_parity return the same value for
\* every permutation of 0..n, the parity of the number of transpositions
\* that make the permutation (that of its number of inversions): Odd for
\* 2 3 4 1 0 and Even for 0 1 4 2 3.
C39_ParitiesAgree ==
    (alg = BoardTest /\ call # Nothing /\ call[1].op = "permutation_parity")
        => LET p == call[1].arg
               inversions ==
                   Cardinality({ij \in (1..Len(p)) \X (1..Len(p)) :
                                   ij[1] < ij[2] /\ p[ij[1]] > p[ij[2]]})
           IN  /\ call[1].returned = call[1].calculate_parity
               /\ call[1].returned = (IF inversions % 2 = 0 THEN Even ELSE Odd)
               /\ p = <<2, 3, 4, 1, 0>> => call[1].returned = Odd
               /\ p = <<0, 1, 4, 2, 3>> => call[1].calculate_parity = Even

\* both were called on 2 3 4 1 0, a 3-cycle and a 2-cycle
C39_Witness ==
    /\ alg = BoardTest
    /\ call # Nothing
    /\ call[1].op = "permutation_parity"
    /\ call[1].arg = <<2, 3, 4, 1, 0>>
    /\ call[1].returned = Odd
    /\ call[1].calculate_parity = Odd

====
